---- MODULE Spec2Model ----
(***************************************************************************)
(* Model of the skin-disease-detection backend: the /diagnose request      *)
(* handler of app.py, the Fireworks adapter it calls, and the              *)
(* _parse_response text parsers of the four backend variants.              *)
(*                                                                         *)
(* A raw model reply is a sequence of tokens.  A token is a maximal piece  *)
(* of text the regular expressions of the parsers treat as a unit: a field *)
(* label ("STATUS:" ...), one whitespace character, the reasoning          *)
(* delimiter, a word, or a number.  Numbers are spelled character by       *)
(* character (Spell), so the numeric patterns and float() are computed on  *)
(* the characters.  Floats are kept in hundredths (0.82 is 82).            *)
(***************************************************************************)
EXTENDS Integers, Sequences, FiniteSets, TLC

VARIABLES
    process,         \* "starting" | "running" | "crashed": the server process
    ai_client,       \* "unset" | "None" | "FireworksClient" (app.py module global)
    request,         \* the last POST /diagnose upload: [content_type, size]
    file_read,       \* TRUE iff the last request reached `await file.read()`
    backend_called,  \* TRUE iff the last request called ai_client.diagnose_skin_image
    outcome,         \* what the backend call of the last request did
    response,        \* the HTTP response of the last request
    variant,         \* the backend variant whose parser is applied (parser runs)
    raw,             \* the raw reply text handed to _parse_response (parser runs)
    parsed,          \* what _parse_response returned (parser runs)
    image,           \* the image normaliser's locals (normaliser runs)
    ollama,          \* one OllamaClient.diagnose_skin_image call (Ollama runs)
    gemini           \* one GeminiClient.diagnose_skin_image call (Gemini runs)

vars == <<process, ai_client, request, file_read, backend_called, outcome,
          response, variant, raw, parsed, image, ollama, gemini>>

-----------------------------------------------------------------------------
(* Tokens *)

STATUS == "STATUS:"
CONFIDENCE == "CONFIDENCE:"
DISEASE == "DISEASE:"
DISEASE_CONFIDENCE == "DISEASE_CONFIDENCE:"
THINK == "</think>"
REFINED_CONFIDENCE == "REFINED_CONFIDENCE:"
REASONING == "REASONING:"
SP == " "
NL == "\n"

\* The characters of the numeric tokens.
Spell ==
    ( "0.82" :> <<"0", ".", "8", "2">> ) @@
    ( "0.77" :> <<"0", ".", "7", "7">> ) @@
    ( "0.9"  :> <<"0", ".", "9">> ) @@
    ( "0.7"  :> <<"0", ".", "7">> ) @@
    ( "0.6"  :> <<"0", ".", "6">> ) @@
    ( "1.5"  :> <<"1", ".", "5">> ) @@
    ( "1"    :> <<"1">> ) @@
    ( "0"    :> <<"0">> ) @@
    ( "0.0"  :> <<"0", ".", "0">> ) @@
    ( "1.2.3" :> <<"1", ".", "2", ".", "3">> )

NumTokens == DOMAIN Spell

DigitVal ==
    ( "0" :> 0 ) @@ ( "1" :> 1 ) @@ ( "2" :> 2 ) @@ ( "3" :> 3 ) @@ ( "4" :> 4 ) @@
    ( "5" :> 5 ) @@ ( "6" :> 6 ) @@ ( "7" :> 7 ) @@ ( "8" :> 8 ) @@ ( "9" :> 9 )

\* regex \d
IsDigit(c) == c \in DOMAIN DigitVal

\* regex \s, and the characters str.strip() removes
IsSpace(t) == t \in {SP, NL}

\* str.lower() of a word token
Lower(t) ==
    CASE t \in {"Healthy", "HEALTHY"} -> "healthy"
      [] t \in {"Unhealthy", "UNHEALTHY"} -> "unhealthy"
      [] t \in {"None", "NONE"} -> "none"
      [] OTHER -> t

-----------------------------------------------------------------------------
(* Character-level numeric patterns and float() *)

RECURSIVE DigitRun(_, _)
\* \d* at position i of cs: how many digits follow
DigitRun(cs, i) ==
    IF i <= Len(cs) /\ IsDigit(cs[i]) THEN 1 + DigitRun(cs, i + 1) ELSE 0

RECURSIVE DigitDotRun(_, _)
\* [\d\.]* at position i of cs
DigitDotRun(cs, i) ==
    IF i <= Len(cs) /\ (IsDigit(cs[i]) \/ cs[i] = ".")
    THEN 1 + DigitDotRun(cs, i + 1) ELSE 0

\* [\d]+\.[\d]+ anchored at the start of cs: the matched characters, <<>> if none
re_decimal(cs) ==
    LET n1 == DigitRun(cs, 1)
        n2 == DigitRun(cs, n1 + 2)
    IN  IF n1 >= 1 /\ n1 + 1 <= Len(cs) /\ cs[n1 + 1] = "." /\ n2 >= 1
        THEN SubSeq(cs, 1, n1 + 1 + n2) ELSE <<>>

\* [\d\.]+ anchored at the start of cs: the matched characters, <<>> if none
re_digits_dots(cs) == SubSeq(cs, 1, DigitDotRun(cs, 1))

RECURSIVE DigitsValue(_, _)
\* the integer a run of n leading digits spells
DigitsValue(cs, n) ==
    IF n = 0 THEN 0 ELSE 10 * DigitsValue(cs, n - 1) + DigitVal[cs[n]]

\* float(cs) for a string of digits and dots: ok = FALSE stands for ValueError
float(cs) ==
    LET n1 == DigitRun(cs, 1)
        hasDot == n1 < Len(cs) /\ cs[n1 + 1] = "."
        frac == IF hasDot THEN SubSeq(cs, n1 + 2, Len(cs)) ELSE <<>>
        n2 == DigitRun(frac, 1)
        d1 == IF n2 >= 1 THEN DigitVal[frac[1]] ELSE 0
        d2 == IF n2 >= 2 THEN DigitVal[frac[2]] ELSE 0
        wellFormed == /\ n1 + n2 >= 1
                      /\ Len(cs) = n1 + (IF hasDot THEN 1 + n2 ELSE 0)
    IN  [ok |-> wellFormed,
         val |-> IF wellFormed THEN 100 * DigitsValue(cs, n1) + 10 * d1 + d2 ELSE 0]

-----------------------------------------------------------------------------
(* Token-level helpers *)

RECURSIVE SpaceRun(_, _)
\* \s* at token i of text: how many whitespace characters follow
SpaceRun(text, i) ==
    IF i <= Len(text) /\ IsSpace(text[i]) THEN 1 + SpaceRun(text, i + 1) ELSE 0

RECURSIVE strip(_)
\* str.strip(): leading and trailing whitespace removed
strip(text) ==
    IF text = <<>> THEN <<>>
    ELSE IF IsSpace(Head(text)) THEN strip(Tail(text))
    ELSE IF IsSpace(text[Len(text)]) THEN strip(SubSeq(text, 1, Len(text) - 1))
    ELSE text

Max(S) == CHOOSE x \in S : \A y \in S : y <= x
Min(S) == CHOOSE x \in S : \A y \in S : x <= y

\* Mutant of AfterLastThink: split("</think>")[1], the text between the
\* first delimiter and the next
AfterFirstThink(text) ==
    LET at == {i \in 1..Len(text) : text[i] = THINK}
        later == {i \in at : i > Min(at)}
    IN  IF at = {} THEN text
        ELSE SubSeq(text, Min(at) + 1, IF later = {} THEN Len(text) ELSE Min(later) - 1)

\* response_text.split("</think>")[-1]: the text after the last delimiter
AfterLastThink(text) ==
    LET at == {i \in 1..Len(text) : text[i] = THINK}
    IN  IF at = {} THEN text ELSE SubSeq(text, Max(at) + 1, Len(text))

NoMatch == [ok |-> FALSE, end |-> 0, val |-> <<>>]
Match(e, v) == [ok |-> TRUE, end |-> e, val |-> v]

-----------------------------------------------------------------------------
(* The field patterns, matched at token i of the text *)

\* The token after a label: after "\s*" (flexible) or after one literal
\* space; 0 when the literal space is missing.
ValueAt(text, i, flexible) ==
    IF flexible THEN i + 1 + SpaceRun(text, i + 1)
    ELSE IF i + 1 <= Len(text) /\ text[i + 1] = SP THEN i + 2 ELSE 0

\* (healthy|unhealthy) under re.IGNORECASE
IsStatusWord(t) == Lower(t) \in {"healthy", "unhealthy"}

\* "STATUS:" at token i and a status word at token j
StatusMatch(text, i, j) ==
    IF text[i] = STATUS /\ j >= 1 /\ j <= Len(text) /\ IsStatusWord(text[j])
    THEN Match(j + 1, <<text[j]>>) ELSE NoMatch

\* r"STATUS:\s*(healthy|unhealthy)" (flexible) and r"STATUS: (healthy|unhealthy)"
re_status(text, i, flexible) == StatusMatch(text, i, ValueAt(text, i, flexible))

\* the characters of the number at token j, <<>> if token j is no number
NumberChars(text, j) ==
    IF j >= 1 /\ j <= Len(text) /\ text[j] \in NumTokens THEN Spell[text[j]] ELSE <<>>

\* one of `labels` at token i and the matched characters m of token j
NumberMatch(text, i, labels, j, m) ==
    IF text[i] \in labels /\ m # <<>> THEN Match(j + 1, m) ELSE NoMatch

\* A numeric field: one of `labels` ends at token i, then the separator, then
\* [\d]+\.[\d]+ (decimal) or [\d\.]+.  The capture is the matched characters.
re_number(text, i, labels, flexible, decimal) ==
    NumberMatch(text, i, labels, ValueAt(text, i, flexible),
                IF decimal
                THEN re_decimal(NumberChars(text, ValueAt(text, i, flexible)))
                ELSE re_digits_dots(NumberChars(text, ValueAt(text, i, flexible))))

\* The tokens whose text ends with "CONFIDENCE:".  With the lookbehind
\* (?<!DISEASE_) the occurrence inside "DISEASE_CONFIDENCE:" is excluded.
ConfidenceLabels(lookbehind) ==
    IF lookbehind THEN {CONFIDENCE} ELSE {CONFIDENCE, DISEASE_CONFIDENCE}

\* the text ends, or DISEASE_CONFIDENCE starts, at token j
EndOrDiseaseConfidence(text, j) == j > Len(text) \/ text[j] = DISEASE_CONFIDENCE

\* (?=\s*DISEASE_CONFIDENCE|\s*$) at token e
LookaheadFireworks(text, e) == EndOrDiseaseConfidence(text, e + SpaceRun(text, e))

\* (?=\n|$) at token e
LookaheadOllama(text, e) == e > Len(text) \/ text[e] = NL

\* [^\n]+? from token s: the ends e of the candidate captures s..e-1
LazyEnds(text, s, fireworks) ==
    {e \in (s + 1)..(Len(text) + 1) :
        /\ \A p \in s..(e - 1) : text[p] # NL
        /\ IF fireworks THEN LookaheadFireworks(text, e) ELSE LookaheadOllama(text, e)}

\* the match that captures tokens s..e-1
CaptureTo(text, s, e) == Match(e, SubSeq(text, s, e - 1))

\* the lazy capture from token s: it ends at the first candidate end
LazyCapture(text, s, ends) ==
    IF ends = {} THEN NoMatch ELSE CaptureTo(text, s, Min(ends))

\* \s* after the label at token i, then a capture: the numbers k of
\* whitespace characters \s* may take
FireworksStarts(text, i, w) ==
    {k \in 0..w : LazyEnds(text, i + 1 + k, TRUE) # {}}

\* \s* is greedy: it takes the most whitespace that leaves a capture
FireworksCapture(text, i, ks) ==
    IF text[i] = DISEASE /\ ks # {}
    THEN LazyCapture(text, i + 1 + Max(ks), LazyEnds(text, i + 1 + Max(ks), TRUE))
    ELSE NoMatch

\* r"DISEASE:\s*([^\n]+?)(?=\s*DISEASE_CONFIDENCE|\s*$)"
re_disease_fireworks(text, i) ==
    FireworksCapture(text, i, FireworksStarts(text, i, SpaceRun(text, i + 1)))

\* r"DISEASE: ([^\n]+?)(?=\n|$)"
re_disease_ollama(text, i) ==
    IF text[i] = DISEASE /\ i + 1 <= Len(text) /\ text[i + 1] = SP
    THEN LazyCapture(text, i + 2, LazyEnds(text, i + 2, FALSE))
    ELSE NoMatch

\* The longest prefix of a token made of [\w\s] characters ("" if none).
WordPrefix(t) ==
    CASE t = STATUS -> "STATUS"
      [] t = CONFIDENCE -> "CONFIDENCE"
      [] t = DISEASE -> "DISEASE"
      [] t = DISEASE_CONFIDENCE -> "DISEASE_CONFIDENCE"
      [] t = THINK -> ""
      [] t \in NumTokens -> Spell[t][1]
      [] OTHER -> t

RECURSIVE WordRun(_, _)
\* [\w\s]* from token i, greedy: whole tokens, then the word prefix of the
\* first token that is not entirely [\w\s]
WordRun(text, i) ==
    IF i > Len(text) THEN <<>>
    ELSE IF WordPrefix(text[i]) = text[i] THEN <<text[i]>> \o WordRun(text, i + 1)
    ELSE IF WordPrefix(text[i]) # "" THEN <<WordPrefix(text[i])>>
    ELSE <<>>

\* "DISEASE: " at token i and the run of [\w\s] characters after it
WordMatch(text, i, run) ==
    IF text[i] = DISEASE /\ i + 1 <= Len(text) /\ text[i + 1] = SP /\ run # <<>>
    THEN Match(i + 2 + Len(run), run)
    ELSE NoMatch

\* r"DISEASE: ([\w\s]+)"
re_disease_gemini(text, i) == WordMatch(text, i, WordRun(text, i + 2))

\* The patterns of the four parsers, by the name of the variable that
\* receives the match in the source.
MatchAt(pattern, text, i) ==
    CASE pattern = "status_matches" -> re_status(text, i, TRUE)
      [] pattern = "confidence_matches" ->
            re_number(text, i, ConfidenceLabels(TRUE), TRUE, TRUE)
      [] pattern = "disease_matches" -> re_disease_fireworks(text, i)
      [] pattern = "disease_conf_matches" ->
            re_number(text, i, {DISEASE_CONFIDENCE}, TRUE, TRUE)
      [] pattern = "status_match" -> re_status(text, i, FALSE)
      [] pattern = "confidence_match" ->
            re_number(text, i, ConfidenceLabels(FALSE), FALSE, FALSE)
      [] pattern = "disease_match" -> re_disease_gemini(text, i)
      [] pattern = "disease_match_ollama" -> re_disease_ollama(text, i)
      [] pattern = "disease_conf_match" ->
            re_number(text, i, {DISEASE_CONFIDENCE}, FALSE, FALSE)
      [] pattern = "refined_confidence_match" ->
            re_number(text, i, {REFINED_CONFIDENCE}, FALSE, FALSE)

RECURSIVE findall(_, _, _)
\* the scan after the attempt m at token i: past the match, or one token on
ScanOn(pattern, text, i, m) ==
    IF m.ok
    THEN <<m.val>> \o findall(pattern, text, Max({m.end, i + 1}))
    ELSE findall(pattern, text, i + 1)

\* re.findall from token i: the captures of the non-overlapping matches,
\* left to right
findall(pattern, text, i) ==
    IF i > Len(text) THEN <<>>
    ELSE ScanOn(pattern, text, i, MatchAt(pattern, text, i))

\* the leftmost of the matches, as a list of 0 or 1 captures
Leftmost(matches) == IF matches = <<>> THEN <<>> ELSE <<matches[1]>>

\* re.search
search(pattern, text) == Leftmost(findall(pattern, text, 1))

\* matches[-1]
Last(matches) == matches[Len(matches)]

\* disease_name.lower() != "none", negated
IsNoneName(name) == Len(name) = 1 /\ Lower(name[1]) = "none"

-----------------------------------------------------------------------------
(* _parse_response of the four variants *)

ParseFailed ==
    [ok |-> FALSE, status |-> "", confidence |-> 0, disease |-> <<>>,
     disease_confidence |-> 0]

Parsed(s, c, d, dc) ==
    [ok |-> TRUE, status |-> s, confidence |-> c, disease |-> d,
     disease_confidence |-> dc]

\* fireworks_client.py: the text the fields are searched in
FireworksFinalText(response_text) ==
    IF \E i \in 1..Len(response_text) : response_text[i] = THINK
    THEN strip(AfterLastThink(response_text))
    ELSE response_text

\* Mutant of LastStatus: the default is "healthy"
LastStatus_DefaultHealthy(status_matches) ==
    IF status_matches # <<>> THEN Lower(Last(status_matches)[1]) ELSE "healthy"

\* status_matches[-1].lower() if status_matches else "unhealthy"
LastStatus(status_matches) ==
    IF status_matches # <<>> THEN Lower(Last(status_matches)[1]) ELSE "unhealthy"

\* float(matches[-1]) if matches else 0.0
LastFloat(matches) ==
    IF matches # <<>> THEN float(Last(matches)).val ELSE 0

\* disease_matches[-1].strip() if disease_matches else "Not Specified"
LastName(disease_matches) ==
    IF disease_matches # <<>> THEN strip(Last(disease_matches)) ELSE <<"Not Specified">>

\* the four findall scans of the final text and the value taken from each
FireworksScanText(text) ==
    [status |-> LastStatus(findall("status_matches", text, 1)),
     confidence |-> LastFloat(findall("confidence_matches", text, 1)),
     disease_name |-> LastName(findall("disease_matches", text, 1)),
     disease_confidence |-> LastFloat(findall("disease_conf_matches", text, 1))]

\* fireworks_client.py: the four scanned values, before post-processing
FireworksScan(response_text) == FireworksScanText(FireworksFinalText(response_text))

\* Mutant of FireworksFinalDisease: the status is not looked at
FireworksFinalDisease_StatusIgnored(status, disease_name) ==
    IF ~IsNoneName(disease_name) THEN disease_name ELSE <<"None">>

\* fireworks_client.py: disease = "None" unless unhealthy with a named disease
FireworksFinalDisease(status, disease_name) ==
    IF status = "unhealthy" /\ ~IsNoneName(disease_name)
    THEN disease_name ELSE <<"None">>

\* the returned dict, from the scanned values s
FireworksResult(s) ==
    Parsed(s.status, s.confidence,
           FireworksFinalDisease(s.status, s.disease_name),
           s.disease_confidence)

FireworksParseResponse(response_text) == FireworksResult(FireworksScan(response_text))

\* status_match.group(1).lower() if status_match else "unhealthy"
FirstStatus(status_match) ==
    IF status_match # <<>> THEN Lower(status_match[1][1]) ELSE "unhealthy"

\* float(match.group(1)) if match else 0.0; ok = FALSE stands for ValueError
FirstFloat(match) ==
    IF match # <<>> THEN float(match[1]) ELSE [ok |-> TRUE, val |-> 0]

\* disease_match.group(1).strip() if disease_match else "Not Specified"
FirstName(disease_match) ==
    IF disease_match # <<>> THEN strip(disease_match[1]) ELSE <<"Not Specified">>

\* the returned dict, or the ValueError of a float() that failed
SearchResult(status, conf, disease, dconf) ==
    IF conf.ok /\ dconf.ok THEN Parsed(status, conf.val, disease, dconf.val)
    ELSE ParseFailed

\* disease and disease_confidence stay "None" and 0.0 unless the status is
\* unhealthy and the disease name is not "none"
SearchAssemble(status, conf, disease_name, disease_conf_match) ==
    IF status = "unhealthy" /\ ~IsNoneName(disease_name)
    THEN SearchResult(status, conf, disease_name, FirstFloat(disease_conf_match))
    ELSE SearchResult(status, conf, <<"None">>, [ok |-> TRUE, val |-> 0])

\* gemini_client.py / huggingface_client2.py / ollama_client.py: the shared
\* shape of the three re.search parsers; they differ in the DISEASE pattern.
SearchParseResponse(response_text, disease_pattern) ==
    SearchAssemble(FirstStatus(search("status_match", response_text)),
                   FirstFloat(search("confidence_match", response_text)),
                   FirstName(search(disease_pattern, response_text)),
                   search("disease_conf_match", response_text))

GeminiParseResponse(response_text) ==
    SearchParseResponse(response_text, "disease_match")

HuggingFaceParseResponse(response_text) ==
    SearchParseResponse(response_text, "disease_match")

OllamaParseResponse(response_text) ==
    SearchParseResponse(response_text, "disease_match_ollama")

Variants == {"fireworks", "gemini", "ollama", "huggingface"}

ParseResponse(v, response_text) ==
    CASE v = "fireworks" -> FireworksParseResponse(response_text)
      [] v = "gemini" -> GeminiParseResponse(response_text)
      [] v = "ollama" -> OllamaParseResponse(response_text)
      [] v = "huggingface" -> HuggingFaceParseResponse(response_text)

-----------------------------------------------------------------------------
(* The Fireworks adapter and the /diagnose handler *)

MAX_FILE_SIZE_MB == 10
MAX_FILE_SIZE_BYTES == MAX_FILE_SIZE_MB * 1024 * 1024
ALLOWED_CONTENT_TYPES == {"image/jpeg", "image/png", "image/webp"}

HTTP_200_OK == 200
HTTP_413_REQUEST_PAYLOAD_TOO_LARGE == 413
HTTP_422_UNPROCESSABLE_ENTITY == 422
HTTP_500_INTERNAL_SERVER_ERROR == 500
HTTP_503_SERVICE_UNAVAILABLE == 503

\* FireworksClient.__init__: raises when FIREWORKS_API_KEY is not set
FireworksClientInit(api_key_set) ==
    IF api_key_set THEN "FireworksClient" ELSE "Exception"

\* app.py module level: try: ai_client = get_ai_client() except: ai_client = None.
\* The pair is <<process, ai_client>> after the module has been loaded.
InitializeClient(api_key_set) ==
    IF FireworksClientInit(api_key_set) = "Exception"
    THEN <<"running", "None">>
    ELSE <<"running", FireworksClientInit(api_key_set)>>

\* What the provider and the upload make of one call of
\* FireworksClient.diagnose_skin_image:
\*   invalid_image      Image.open raises on the uploaded bytes
\*   request_error      client.post raises httpx.RequestError (no connection)
\*   http_status_error  raise_for_status raises httpx.HTTPStatusError
\*   no_choices         the envelope has no "choices"
\*   reply              choices[0].message.content is `content`
BackendFailures ==
    {"invalid_image", "request_error", "http_status_error", "no_choices"}

\* FireworksClient._call_fireworks_api on a reply envelope: `if not
\* ai_text_response` rejects the empty string only
IsEmptyContent(content) == content = <<>>

\* diagnose_skin_image step 4 and its `except Exception`: the parsed data, or
\* the wrapped ValueError of _parse_response
ParseOutcome(data) ==
    IF data.ok THEN [error |-> "", data |-> data]
    ELSE [error |-> "An error occurred during analysis", data |-> ParseFailed]

\* FireworksClient.diagnose_skin_image: [error, data]; error is "" on success,
\* else the message of the Exception it raises
FireworksDiagnose(kind, content) ==
        CASE kind = "http_status_error" ->
                [error |-> "HTTP error connecting to Fireworks", data |-> ParseFailed]
          [] kind = "request_error" ->
                [error |-> "Failed to connect to Fireworks", data |-> ParseFailed]
          [] kind \in {"invalid_image", "no_choices"} ->
                [error |-> "An error occurred during analysis", data |-> ParseFailed]
          [] kind = "reply" /\ IsEmptyContent(content) ->
                [error |-> "An error occurred during analysis", data |-> ParseFailed]
          [] kind = "reply" /\ ~IsEmptyContent(content) ->
                ParseOutcome(FireworksParseResponse(content))

\* models.py DiagnosisResponse: the Literal and the Field(ge=0.0, le=1.0) bounds
DiagnosisResponseValid(data) ==
    /\ data.status \in {"healthy", "unhealthy"}
    /\ 0 <= data.confidence /\ data.confidence <= 100
    /\ 0 <= data.disease_confidence /\ data.disease_confidence <= 100

NoBody == <<>>
HttpResponse(code, detail, body) ==
    [status_code |-> code, detail |-> detail, body |-> body]

\* Mutant of ClientNotReady: only a client never assigned counts as missing
ClientNotReady_Unset(client) == client = "unset"

\* app.py `if not ai_client`
ClientNotReady(client) == client = "None"

\* Mutant of AnalysisFailure: a connection failure is answered 503
AnalysisFailure_Unavailable(message) ==
    HttpResponse(IF message = "Failed to connect to Fireworks"
                 THEN HTTP_503_SERVICE_UNAVAILABLE
                 ELSE HTTP_500_INTERNAL_SERVER_ERROR,
                 message, NoBody)

\* app.py `except Exception as e`: every failure of the analysis, whatever
\* its message, becomes a 500 that carries the message
AnalysisFailure(message) ==
    HttpResponse(HTTP_500_INTERNAL_SERVER_ERROR, message, NoBody)

\* app.py `file.content_type not in ALLOWED_CONTENT_TYPES`
ContentTypeRejected(content_type) == content_type \notin ALLOWED_CONTENT_TYPES

\* Mutant of TooLarge: the limit itself is refused
TooLarge_Inclusive(size) == size >= MAX_FILE_SIZE_BYTES

\* app.py `len(image_bytes) > MAX_FILE_SIZE_BYTES`
TooLarge(size) == size > MAX_FILE_SIZE_BYTES

Served(resp, read, called, kind, text, data) ==
    [response |-> resp, file_read |-> read, backend_called |-> called,
     outcome |-> kind, raw |-> text, parsed |-> data]

\* app.py diagnose_skin, the try block: the result r of the client call is
\* validated by DiagnosisResponse(**diagnosis_data) and returned; any
\* exception becomes the 500 of AnalysisFailure
Analysed(r, kind, text) ==
    IF r.error # ""
    THEN Served(AnalysisFailure(r.error), TRUE, TRUE, kind, text, <<>>)
    ELSE IF ~DiagnosisResponseValid(r.data)
    THEN Served(AnalysisFailure("validation error"), TRUE, TRUE, kind, text, <<r.data>>)
    ELSE Served(HttpResponse(HTTP_200_OK, "", <<r.data>>), TRUE, TRUE, kind, text, <<r.data>>)

\* app.py diagnose_skin, the whole handler of POST /diagnose
diagnose_skin(client, content_type, size, kind, content) ==
    IF ClientNotReady(client)
    THEN Served(HttpResponse(HTTP_503_SERVICE_UNAVAILABLE, "AI service is not configured", NoBody),
                FALSE, FALSE, "not_called", <<>>, <<>>)
    ELSE IF ContentTypeRejected(content_type)
    THEN Served(HttpResponse(HTTP_422_UNPROCESSABLE_ENTITY, "Invalid file type", NoBody),
                FALSE, FALSE, "not_called", <<>>, <<>>)
    ELSE IF TooLarge(size)
    THEN Served(HttpResponse(HTTP_413_REQUEST_PAYLOAD_TOO_LARGE, "File size exceeds limit", NoBody),
                TRUE, FALSE, "not_called", <<>>, <<>>)
    ELSE Analysed(FireworksDiagnose(kind, content), kind,
                  IF kind = "reply" THEN content ELSE <<>>)

-----------------------------------------------------------------------------
(* Inputs *)

\* One field written as the prompt asks: the label, a space, the value.
Field(label, value) == <<label, SP, value>>

RECURSIVE JoinLines(_)
\* the lines joined by "\n"
JoinLines(lines) ==
    IF lines = <<>> THEN <<>>
    ELSE IF Len(lines) = 1 THEN lines[1]
    ELSE lines[1] \o <<NL>> \o JoinLines(Tail(lines))

\* Replies of the provider to a /diagnose call: the four fields in the order
\* of the prompt, each present or absent, and the blank replies.
Optional(label, values) == {<<>>} \cup {<<Field(label, v)>> : v \in values}

ReplyTexts ==
    {JoinLines(s \o c \o d \o dc) :
        s \in Optional(STATUS, {"healthy", "unhealthy"}),
        c \in Optional(CONFIDENCE, {"0.82", "1.5"}),
        d \in Optional(DISEASE, {"Eczema", "None"}),
        dc \in Optional(DISEASE_CONFIDENCE, {"0.7"})}
    \cup {<<SP>>, <<NL>>}

ContentTypes == ALLOWED_CONTENT_TYPES \cup {"image/gif", "text/plain"}

Sizes == {MAX_FILE_SIZE_BYTES - 1, MAX_FILE_SIZE_BYTES, MAX_FILE_SIZE_BYTES + 1}

\* Texts given to the parsers: up to MaxLines lines, each a field or the
\* reasoning delimiter.
MaxLines == 4

LineKinds ==
    {Field(STATUS, v) : v \in {"healthy", "unhealthy"}}
    \cup {Field(CONFIDENCE, v) : v \in {"0.82", "1"}}
    \cup {Field(DISEASE, v) : v \in {"Eczema", "None"}}
    \cup {Field(DISEASE_CONFIDENCE, v) : v \in {"0.9", "1.5"}}
    \cup {<<THINK>>}

LineTexts(n) == {JoinLines(ls) : ls \in [1..n -> LineKinds]}

\* Texts in which the model repeats the four-field block while reasoning:
\* 1..MaxRepeat-1 draft blocks, then the block of the final answer.  A block
\* is in the order of the prompt or has the DISEASE line first.
MaxRepeat == 2

Block(s, c, d, dc) ==
    {JoinLines(<<Field(STATUS, s), Field(CONFIDENCE, c), Field(DISEASE, d),
                 Field(DISEASE_CONFIDENCE, dc)>>),
     JoinLines(<<Field(DISEASE, d), Field(STATUS, s), Field(CONFIDENCE, c),
                 Field(DISEASE_CONFIDENCE, dc)>>)}

DraftBlocks ==
    UNION {Block(s, "0.6", "Acne", "0.7") : s \in {"healthy", "unhealthy"}}

FinalBlocks ==
    UNION {Block(s, c, d, dc) :
           s \in {"healthy", "unhealthy"}, c \in {"0.82", "1"},
           d \in {"Eczema", "None"}, dc \in {"0.9", "0"}}

RepeatTexts ==
    UNION {{JoinLines(drafts \o <<final>>) :
               drafts \in [1..n -> DraftBlocks], final \in FinalBlocks} :
           n \in 1..(MaxRepeat - 1)}

-----------------------------------------------------------------------------
(* The service: startup, then requests *)

NoRequest == [content_type |-> "", size |-> 0]
NoResponse == HttpResponse(0, "", NoBody)

\* no normaliser, Ollama or Gemini call is in progress
NoImage == [pc |-> "idle"]
NoOllama == [pc |-> "idle"]
NoGemini == [pc |-> "idle"]

OthersIdle == image = NoImage /\ ollama = NoOllama /\ gemini = NoGemini

Init ==
    /\ process = "starting"
    /\ ai_client = "unset"
    /\ request = NoRequest
    /\ file_read = FALSE
    /\ backend_called = FALSE
    /\ outcome = "not_called"
    /\ response = NoResponse
    /\ variant = "fireworks"
    /\ raw = <<>>
    /\ parsed = <<>>
    /\ OthersIdle

\* app.py is loaded: the client is built once, with or without the API key
Startup ==
    /\ process = "starting"
    /\ \E api_key_set \in BOOLEAN :
          /\ process' = InitializeClient(api_key_set)[1]
          /\ ai_client' = InitializeClient(api_key_set)[2]
    /\ UNCHANGED <<request, file_read, backend_called, outcome, response,
                   variant, raw, parsed, image, ollama, gemini>>

\* the request and what the handler made of it become the state
Respond(content_type, size, r) ==
    /\ request' = [content_type |-> content_type, size |-> size]
    /\ response' = r.response
    /\ file_read' = r.file_read
    /\ backend_called' = r.backend_called
    /\ outcome' = r.outcome
    /\ raw' = r.raw
    /\ parsed' = r.parsed

\* What the provider may do with the call of one request: one of the
\* failures, or a reply with some content (the empty string included).  A
\* request that is answered before the client is called meets no provider.
BackendBehaviours(client, content_type, size) ==
    IF ClientNotReady(client) \/ ContentTypeRejected(content_type) \/ TooLarge(size)
    THEN {<<"not_called", <<>>>>}
    ELSE {<<kind, <<>>>> : kind \in BackendFailures}
         \cup {<<"reply", content>> : content \in ReplyTexts \cup {<<>>}}

\* One POST /diagnose, from the upload to the response
Diagnose ==
    /\ process = "running"
    /\ \E content_type \in ContentTypes, size \in Sizes :
          \E b \in BackendBehaviours(ai_client, content_type, size) :
             Respond(content_type, size,
                     diagnose_skin(ai_client, content_type, size, b[1], b[2]))
    /\ UNCHANGED <<process, ai_client, variant, image, ollama, gemini>>

Next == Startup \/ Diagnose

Spec == Init /\ [][Next]_vars

-----------------------------------------------------------------------------
(* The parsers as functions of the reply text *)

ParserIdle ==
    /\ process = "running"
    /\ ai_client = "FireworksClient"
    /\ request = NoRequest
    /\ file_read = FALSE
    /\ backend_called = FALSE
    /\ outcome = "not_called"
    /\ response = NoResponse
    /\ parsed = <<>>

InitParse ==
    /\ ParserIdle
    /\ OthersIdle
    /\ variant \in Variants
    /\ \E n \in 0..MaxLines : raw \in LineTexts(n)

InitRepeat ==
    /\ ParserIdle
    /\ OthersIdle
    /\ variant \in Variants
    /\ raw \in RepeatTexts

\* _parse_response of the chosen variant is applied to the text
Parse ==
    /\ parsed = <<>>
    /\ parsed' = <<ParseResponse(variant, raw)>>
    /\ UNCHANGED <<process, ai_client, request, file_read, backend_called,
                   outcome, response, variant, raw, image, ollama, gemini>>

SpecParse == InitParse /\ [][Parse]_vars

SpecRepeat == InitRepeat /\ [][Parse]_vars

-----------------------------------------------------------------------------
(* The image normaliser: _image_to_url / _image_to_base64 *)

max_size_kb == 500
InitialQuality == 85
QualityFloor == 10
QualityStep == 5

\* size_kb = len(img_buffer.getvalue()) / 1024 is compared with max_size_kb:
\* the budget in bytes
MaxSizeBytes == max_size_kb * 1024

\* img.convert('RGB') is applied to RGBA images only
ConvertMode(mode) == IF mode = "RGBA" THEN "RGB" ELSE mode

\* img.save(format="JPEG"): Pillow's JPEG encoder writes these modes and
\* raises OSError ("cannot write mode ... as JPEG") for any other
JpegModes == {"RGB", "L"}

\* Mutant of Shrunk: the dimension is kept
Shrunk_Unchanged(n) == n

\* int(width * 0.9)
Shrunk(n) == (n * 9) \div 10

\* Mutant of Lowered: the step is 10
Lowered_ByTen(quality) == quality - 10

\* quality -= 5
Lowered(quality) == quality - QualityStep

\* Mutant of LoopExit: the loop gives up at quality 20
LoopExit_FloorTwenty(size, quality) == size <= MaxSizeBytes \/ quality <= 20

\* `if size_kb <= max_size_kb or quality <= 10: break`
LoopExit(size, quality) == size <= MaxSizeBytes \/ quality <= QualityFloor

\* Uploads: the mode and the dimensions of the decoded image.  The encoded
\* length of each img.save is the codec's: any of EncodedSizes.
ImageModes == {"RGB", "RGBA", "P"}
ImageSizes == {<<640, 480>>, <<4000, 3000>>, <<13000, 13000>>}
EncodedSizes == {100 * 1024, MaxSizeBytes, MaxSizeBytes + 1, 2000 * 1024}

NoBuffer == [bytes |-> 0, quality |-> 0, width |-> 0, height |-> 0]

\* the locals after Image.open, the RGBA conversion and `quality = 85`
Opened(mode, size) ==
    [pc |-> "save", mode |-> ConvertMode(mode), width |-> size[1],
     height |-> size[2], quality |-> InitialQuality, img_buffer |-> NoBuffer,
     encodings |-> 0, shrinks |-> 0, result |-> NoBuffer]

\* the buffer img.save fills: n bytes of the image as it is now
Saved(im, n) ==
    [bytes |-> n, quality |-> im.quality, width |-> im.width, height |-> im.height]

InitNormalize ==
    /\ ParserIdle
    /\ variant = "fireworks"
    /\ raw = <<>>
    /\ ollama = NoOllama
    /\ gemini = NoGemini
    /\ image \in {Opened(m, d) : m \in ImageModes, d \in ImageSizes}

NormalizeOnly ==
    UNCHANGED <<process, ai_client, request, file_read, backend_called, outcome,
                response, variant, raw, parsed, ollama, gemini>>

\* img_buffer = io.BytesIO(); img.save(img_buffer, format="JPEG", quality=quality)
Save ==
    /\ image.pc = "save"
    /\ IF image.mode \in JpegModes
       THEN \E n \in EncodedSizes :
               image' = [image EXCEPT !.pc = "test", !.img_buffer = Saved(image, n),
                                      !.encodings = @ + 1]
       ELSE image' = [image EXCEPT !.pc = "raised"]
    /\ NormalizeOnly

\* break, then the encoding of img_buffer.getvalue() is returned
Break ==
    /\ image.pc = "test"
    /\ LoopExit(image.img_buffer.bytes, image.quality)
    /\ image' = [image EXCEPT !.pc = "returned", !.result = image.img_buffer]
    /\ NormalizeOnly

\* img = img.resize((int(width * 0.9), int(height * 0.9))); quality -= 5
Resize ==
    /\ image.pc = "test"
    /\ ~LoopExit(image.img_buffer.bytes, image.quality)
    /\ image' = [image EXCEPT !.pc = "save", !.width = Shrunk(@),
                              !.height = Shrunk(@), !.quality = Lowered(@),
                              !.shrinks = @ + 1]
    /\ NormalizeOnly

NextNormalize == Save \/ Break \/ Resize

SpecNormalize == InitNormalize /\ [][NextNormalize]_vars

\* the function runs on: a statement that can execute does execute
SpecNormalizeFair == SpecNormalize /\ WF_vars(NextNormalize)


-----------------------------------------------------------------------------
(* OllamaClient.diagnose_skin_image: the vision call and the refinement *)

\* What one _call_ollama_api meets: client.post raises httpx.RequestError,
\* raise_for_status raises httpx.HTTPStatusError, or message.content is
\* `content`; step 1 may also fail to open the upload.
OllamaCallFailures == {"request_error", "http_status_error"}

\* _call_ollama_api: `if not ai_text_response` rejects the empty string only
ReplyKind(kind, content) ==
    IF kind = "reply" /\ IsEmptyContent(content) THEN "empty" ELSE kind

\* the three except clauses of diagnose_skin_image: the message raised
OllamaFailure(kind) ==
    CASE kind = "http_status_error" -> "HTTP error connecting to Ollama"
      [] kind = "request_error" -> "Failed to connect to Ollama"
      [] OTHER -> "An error occurred during analysis"

\* vision_data.get("status") == "unhealthy" and vision_data.get("disease") != "None"
NeedsRefinement(vision_data) ==
    vision_data.status = "unhealthy" /\ vision_data.disease # <<"None">>

\* _parse_text_refinement, the value under "refined_confidence": <<v>>, or
\* <<>> for None (no match) and for the {} returned when float() raises
RefinedConfidence(confidence_match) ==
    IF confidence_match = <<>> THEN <<>>
    ELSE IF float(confidence_match[1]).ok THEN <<float(confidence_match[1]).val>>
    ELSE <<>>

ParseTextRefinement(response_text) ==
    RefinedConfidence(search("refined_confidence_match", response_text))

\* `if text_data.get("refined_confidence"):` the override of disease_confidence
Combine(vision_data, text_data) ==
    IF text_data # <<>> /\ text_data[1] # 0
    THEN [vision_data EXCEPT !.disease_confidence = text_data[1]]
    ELSE vision_data

OllamaStarted ==
    [pc |-> "vision", vision |-> "not_sent", vision_text |-> <<>>,
     vision_data |-> ParseFailed, refinement |-> "not_sent",
     text_response |-> <<>>, text_data |-> <<>>, result |-> <<>>, error |-> ""]

OllamaRaise(o, kind) == [o EXCEPT !.pc = "raised", !.error = OllamaFailure(kind)]

OllamaReturn(o, data) == [o EXCEPT !.pc = "returned", !.result = <<data>>]

\* after _parse_response of the vision reply: raise, refine or return
AfterVision(o, data) ==
    IF ~data.ok THEN OllamaRaise(o, "parse_error")
    ELSE IF NeedsRefinement(data) THEN [o EXCEPT !.pc = "refine", !.vision_data = data]
    ELSE OllamaReturn([o EXCEPT !.vision_data = data], data)

\* steps 1 and 2 of diagnose_skin_image
VisionStep(o, kind, content) ==
    IF ReplyKind(kind, content) # "reply"
    THEN OllamaRaise([o EXCEPT !.vision = ReplyKind(kind, content)],
                     ReplyKind(kind, content))
    ELSE AfterVision([o EXCEPT !.vision = "reply", !.vision_text = content],
                     OllamaParseResponse(content))

\* after _parse_text_refinement: the combined result is returned
AfterRefinement(o, text_data) ==
    OllamaReturn([o EXCEPT !.text_data = text_data], Combine(o.vision_data, text_data))

\* step 3 of diagnose_skin_image
RefinementStep(o, kind, content) ==
    IF ReplyKind(kind, content) # "reply"
    THEN OllamaRaise([o EXCEPT !.refinement = ReplyKind(kind, content)],
                     ReplyKind(kind, content))
    ELSE AfterRefinement([o EXCEPT !.refinement = "reply", !.text_response = content],
                         ParseTextRefinement(content))

\* Replies of the text model: the two fields of the refinement prompt with
\* a value that parses or not, or a reply without the confidence field
RefinementTexts ==
    {<<REFINED_CONFIDENCE, SP, v, NL, REASONING, SP, "plausible">> :
        v \in {"0.77", "0.0", "1.5", "1.2.3"}}
    \cup {<<REASONING, SP, "plausible">>, <<REFINED_CONFIDENCE, SP, "high">>, <<SP>>}

InitOllama ==
    /\ ParserIdle
    /\ variant = "ollama"
    /\ raw = <<>>
    /\ image = NoImage
    /\ gemini = NoGemini
    /\ ollama = OllamaStarted

OllamaOnly ==
    UNCHANGED <<process, ai_client, request, file_read, backend_called, outcome,
                response, variant, raw, parsed, image, gemini>>

\* the image is converted, the vision model is called and its reply parsed
VisionCall ==
    /\ ollama.pc = "vision"
    /\ \E b \in {<<kind, <<>>>> : kind \in OllamaCallFailures \cup {"invalid_image"}}
                \cup {<<"reply", content>> : content \in ReplyTexts \cup {<<>>}} :
          ollama' = VisionStep(ollama, b[1], b[2])
    /\ OllamaOnly

\* the text model is called with the finding and its reply parsed
RefinementCall ==
    /\ ollama.pc = "refine"
    /\ \E b \in {<<kind, <<>>>> : kind \in OllamaCallFailures}
                \cup {<<"reply", content>> : content \in RefinementTexts \cup {<<>>}} :
          ollama' = RefinementStep(ollama, b[1], b[2])
    /\ OllamaOnly

NextOllama == VisionCall \/ RefinementCall

SpecOllama == InitOllama /\ [][NextOllama]_vars

-----------------------------------------------------------------------------
(* GeminiClient.diagnose_skin_image: the retry loop and the error mapping *)

max_retries == 3
BackoffSeconds == 30

\* Messages of the exceptions an attempt may raise, and for each the
\* substrings of str(e).lower() the two except clauses look for.
Markers ==
    ( "503 UNAVAILABLE. The model is overloaded." :>
          {"503", "unavailable", "overloaded"} ) @@
    ( "Service Unavailable" :> {"unavailable"} ) @@
    ( "The model is overloaded. Please try again later." :> {"overloaded"} ) @@
    ( "429 RESOURCE_EXHAUSTED. Quota exceeded." :> {"429", "quota"} ) @@
    ( "403 PERMISSION_DENIED. Forbidden." :> {"403", "forbidden"} ) @@
    ( "401 UNAUTHENTICATED. Unauthorized." :> {"401", "unauthorized"} ) @@
    ( "cannot identify image file" :> {} ) @@
    ( "Failed to parse Gemini response." :> {} )

\* the exceptions of Image.open and of client.models.generate_content
AttemptFailures == DOMAIN Markers \ {"Failed to parse Gemini response."}

\* `word in error_str`
Contains(message, word) == word \in Markers[message]

\* Mutant of Retryable: every failure is retried
Retryable_AnyFailure(message, attempt) == attempt < max_retries - 1

\* the inner except: a retryable error, and not the last attempt
Retryable(message, attempt) ==
    /\ \/ Contains(message, "503")
       \/ Contains(message, "unavailable")
       \/ Contains(message, "overloaded")
    /\ attempt < max_retries - 1

\* wait_time = (attempt + 1) * 30
WaitTime(attempt) == (attempt + 1) * BackoffSeconds

\* the outer except: the message of the Exception finally raised
Surfaced(message) ==
    IF Contains(message, "503") \/ Contains(message, "unavailable")
    THEN "Gemini API is currently overloaded."
    ELSE IF Contains(message, "429") \/ Contains(message, "quota")
    THEN "API quota exceeded."
    ELSE IF Contains(message, "403") \/ Contains(message, "forbidden")
    THEN "API access forbidden."
    ELSE IF Contains(message, "401") \/ Contains(message, "unauthorized")
    THEN "API authentication failed."
    ELSE "An error occurred during Gemini analysis"

GeminiStarted ==
    [pc |-> "attempt", attempt |-> 0, errors |-> <<>>, waits |-> <<>>,
     reply |-> <<>>, result |-> <<>>, error |-> ""]

\* the attempt raised `message`: sleep and continue, or re-raise to the
\* outer except
AttemptFailed(g, message) ==
    IF Retryable(message, g.attempt)
    THEN [g EXCEPT !.pc = "sleeping", !.errors = Append(@, message),
                   !.waits = Append(@, WaitTime(g.attempt))]
    ELSE [g EXCEPT !.pc = "raised", !.errors = Append(@, message),
                   !.error = Surfaced(message)]

\* structured_data = self._parse_response(ai_text_response); return
AttemptParsed(g, data) ==
    IF data.ok THEN [g EXCEPT !.pc = "returned", !.result = <<data>>]
    ELSE AttemptFailed(g, "Failed to parse Gemini response.")

\* the provider replied: ai_text_response = response.text.strip()
AttemptReplied(g, text) ==
    AttemptParsed([g EXCEPT !.reply = text], GeminiParseResponse(strip(text)))

\* Replies of Gemini: a full answer, a healthy answer, one whose number
\* float() rejects
GeminiTexts ==
    {JoinLines(<<Field(STATUS, "unhealthy"), Field(CONFIDENCE, "0.82"),
                 Field(DISEASE, "Eczema"), Field(DISEASE_CONFIDENCE, "0.7")>>),
     JoinLines(<<Field(STATUS, "healthy"), Field(CONFIDENCE, "0.9")>>) \o <<NL>>,
     Field(CONFIDENCE, "1.2.3")}

InitGemini ==
    /\ ParserIdle
    /\ variant = "gemini"
    /\ raw = <<>>
    /\ image = NoImage
    /\ ollama = NoOllama
    /\ gemini = GeminiStarted

GeminiOnly ==
    UNCHANGED <<process, ai_client, request, file_read, backend_called, outcome,
                response, variant, raw, parsed, image, ollama>>

\* one pass of the body of `for attempt in range(max_retries)`
Attempt ==
    /\ gemini.pc = "attempt"
    /\ \/ \E message \in AttemptFailures : gemini' = AttemptFailed(gemini, message)
       \/ \E text \in GeminiTexts : gemini' = AttemptReplied(gemini, text)
    /\ GeminiOnly

\* time.sleep(wait_time); continue
Sleep ==
    /\ gemini.pc = "sleeping"
    /\ gemini' = [gemini EXCEPT !.pc = "attempt", !.attempt = @ + 1]
    /\ GeminiOnly

NextGemini == Attempt \/ Sleep

SpecGemini == InitGemini /\ [][NextGemini]_vars

-----------------------------------------------------------------------------
(* What a text says, read off the tokens without the parsers' patterns *)

\* the value each numeric token writes, in hundredths
Hundredths ==
    ( "0.82" :> 82 ) @@ ( "0.77" :> 77 ) @@ ( "0.9" :> 90 ) @@ ( "0.7" :> 70 ) @@
    ( "0.6" :> 60 ) @@ ( "1.5" :> 150 ) @@ ( "1" :> 100 ) @@ ( "0" :> 0 ) @@
    ( "0.0" :> 0 )

\* a number brought into [0.0, 1.0]
Clamp(x) == IF x > 100 THEN 100 ELSE IF x < 0 THEN 0 ELSE x

\* the places after token `from` where the field `label` is written
FieldsAfter(text, label, from) ==
    {i \in 1..Len(text) :
        i > from /\ text[i] = label /\ i + 2 <= Len(text) /\ text[i + 1] = SP}

\* the values written for the field `label` after token `from`
WrittenAfter(text, label, from) ==
    {text[i + 2] : i \in FieldsAfter(text, label, from)}

\* the value of the last occurrence of the field `label`
LastWritten(text, label) == text[Max(FieldsAfter(text, label, 0)) + 2]

\* the place of the last reasoning delimiter, 0 if there is none
LastThinkAt(text) == Max({0} \cup {i \in 1..Len(text) : text[i] = THINK})

FieldLabels == {STATUS, CONFIDENCE, DISEASE, DISEASE_CONFIDENCE}

\* the parser has returned in a parser run
Returned == parsed # <<>>

-----------------------------------------------------------------------------
(* C1 *)

\* C1: FireworksClient._parse_response, for a text in which each of the four
\* fields occurs more than once, returns for each field the value of its
\* last occurrence (the disease name whenever the last status is unhealthy).
C1_LastOccurrenceReturned ==
    ( /\ Returned
      /\ variant = "fireworks"
      /\ \A l \in FieldLabels : Cardinality(FieldsAfter(raw, l, 0)) > 1 )
    => /\ parsed[1].status = LastWritten(raw, STATUS)
       /\ parsed[1].confidence = Hundredths[LastWritten(raw, CONFIDENCE)]
       /\ parsed[1].disease_confidence = Hundredths[LastWritten(raw, DISEASE_CONFIDENCE)]
       /\ ( LastWritten(raw, STATUS) = "unhealthy"
            => parsed[1].disease = <<LastWritten(raw, DISEASE)>> )

-----------------------------------------------------------------------------
(* C2 *)

\* C2: in every variant's _parse_response the returned confidence is never
\* taken from a DISEASE_CONFIDENCE field: it is the default 0.0 or the value
\* of a CONFIDENCE field of the text.
C2_ConfidenceNotFromDiseaseConfidence ==
    ( Returned /\ parsed[1].ok )
    => parsed[1].confidence \in
          {0} \cup {Hundredths[v] : v \in WrittenAfter(raw, CONFIDENCE, 0)}

-----------------------------------------------------------------------------
(* C3 *)

\* the text has exactly one occurrence of each field and no reasoning delimiter
SingleInstance(text) ==
    /\ LastThinkAt(text) = 0
    /\ \A l \in FieldLabels : Cardinality(FieldsAfter(text, l, 0)) = 1

\* C3: for a text with one well-formed instance of each of the four fields,
\* in any order, the parser returns the written status, the written disease
\* (when the status is unhealthy) and the two numbers clamped into [0.0, 1.0].
C3_SingleInstanceReturnedClamped ==
    ( Returned /\ variant = "fireworks" /\ SingleInstance(raw) )
    => /\ parsed[1].ok
       /\ parsed[1].status = LastWritten(raw, STATUS)
       /\ parsed[1].confidence = Clamp(Hundredths[LastWritten(raw, CONFIDENCE)])
       /\ parsed[1].disease_confidence =
             Clamp(Hundredths[LastWritten(raw, DISEASE_CONFIDENCE)])
       /\ ( LastWritten(raw, STATUS) = "unhealthy"
            => parsed[1].disease = <<LastWritten(raw, DISEASE)>> )

-----------------------------------------------------------------------------
(* C4 *)

\* C4: in every DiagnosisResult /diagnose returns, disease "None" comes with
\* disease_confidence 0.0.
C4_NoneHasZeroConfidence ==
    ( response.status_code = 200 /\ response.body[1].disease = <<"None">> )
    => response.body[1].disease_confidence = 0

-----------------------------------------------------------------------------
(* C5 *)

\* C5: in every variant's parser, a parsed status "healthy" comes with the
\* disease "None", whatever the DISEASE field of the text says.
C5_HealthyHasDiseaseNone ==
    ( Returned /\ parsed[1].ok /\ parsed[1].status = "healthy" )
    => parsed[1].disease = <<"None">>

\* a text that names a disease and is parsed as healthy
C5_Witness ==
    /\ Returned
    /\ variant = "fireworks"
    /\ parsed[1].status = "healthy"
    /\ "Eczema" \in WrittenAfter(raw, DISEASE, LastThinkAt(raw))

-----------------------------------------------------------------------------
(* C6 *)

\* C6: when the text has the delimiter "</think>", the Fireworks parser takes
\* every field from the text after the last delimiter: each returned value is
\* the field's default or a value written after it, so a field written only
\* before the last delimiter is returned as its default.
C6_OnlyAfterLastThink ==
    ( Returned /\ variant = "fireworks" /\ LastThinkAt(raw) > 0 )
    => /\ parsed[1].status \in
             {"unhealthy"} \cup WrittenAfter(raw, STATUS, LastThinkAt(raw))
       /\ parsed[1].confidence \in
             {0} \cup {Hundredths[v] : v \in WrittenAfter(raw, CONFIDENCE, LastThinkAt(raw))}
       /\ parsed[1].disease \in
             {<<"None">>, <<"Not Specified">>}
             \cup {<<v>> : v \in WrittenAfter(raw, DISEASE, LastThinkAt(raw))}
       /\ parsed[1].disease_confidence \in
             {0} \cup {Hundredths[v] :
                          v \in WrittenAfter(raw, DISEASE_CONFIDENCE, LastThinkAt(raw))}

\* fields written before the last delimiter only, and one written after it
C6_Witness ==
    /\ Returned
    /\ variant = "fireworks"
    /\ LastThinkAt(raw) > 0
    /\ "healthy" \in WrittenAfter(raw, STATUS, 0)
    /\ "Eczema" \in WrittenAfter(raw, DISEASE, 0)
    /\ WrittenAfter(raw, STATUS, LastThinkAt(raw)) = {}
    /\ WrittenAfter(raw, DISEASE, LastThinkAt(raw)) = {}
    /\ WrittenAfter(raw, CONFIDENCE, LastThinkAt(raw)) = {"0.82"}
    /\ parsed[1] = Parsed("unhealthy", 82, <<"Not Specified">>, 0)

-----------------------------------------------------------------------------
(* C7 *)

\* the field `label` is absent from the text the fields are taken from
Absent(text, label) ==
    \A i \in 1..Len(text) : i > LastThinkAt(text) => text[i] # label

\* C7: the Fireworks parser never raises for an absent field; an absent
\* field takes its default (status "unhealthy", confidence 0.0, disease name
\* "Not Specified", which a healthy status turns into "None",
\* disease_confidence 0.0); "STATUS: healthy" alone gives {healthy, 0.0,
\* "None", 0.0} and the empty text {unhealthy, 0.0, "Not Specified", 0.0}.
C7_AbsentFieldsTakeDefaults ==
    ( Returned /\ variant = "fireworks" )
    => /\ parsed[1].ok
       /\ ( Absent(raw, STATUS) => parsed[1].status = "unhealthy" )
       /\ ( Absent(raw, CONFIDENCE) => parsed[1].confidence = 0 )
       /\ ( Absent(raw, DISEASE) =>
               parsed[1].disease = IF parsed[1].status = "healthy"
                                   THEN <<"None">> ELSE <<"Not Specified">> )
       /\ ( Absent(raw, DISEASE_CONFIDENCE) => parsed[1].disease_confidence = 0 )
       /\ ( raw = <<STATUS, SP, "healthy">>
               => parsed[1] = Parsed("healthy", 0, <<"None">>, 0) )
       /\ ( raw = <<>> => parsed[1] = Parsed("unhealthy", 0, <<"Not Specified">>, 0) )

\* a text with DISEASE_CONFIDENCE but neither STATUS, CONFIDENCE nor DISEASE
C7_Witness ==
    /\ Returned
    /\ variant = "fireworks"
    /\ raw = <<DISEASE_CONFIDENCE, SP, "0.9">>
    /\ parsed[1] = Parsed("unhealthy", 0, <<"Not Specified">>, 90)

-----------------------------------------------------------------------------
(* C8 *)

\* a request has been answered
Answered == request # NoRequest

\* C8: the process survives a failed client initialisation, and with
\* ai_client None every POST /diagnose is answered 503 without reading the
\* file, calling the backend or any other outcome.
C8_UnconfiguredAnswers503 ==
    /\ process \in {"starting", "running"}
    /\ ( process = "running" => ai_client \in {"None", "FireworksClient"} )
    /\ ( (ai_client = "None" /\ Answered)
         => /\ response.status_code = 503
            /\ response.body = <<>>
            /\ ~file_read
            /\ ~backend_called
            /\ outcome = "not_called" )

\* a valid upload answered 503 by the unconfigured service
C8_Witness ==
    /\ process = "running"
    /\ ai_client = "None"
    /\ request = [content_type |-> "image/jpeg", size |-> 10 * 1024 * 1024]
    /\ response.status_code = 503

-----------------------------------------------------------------------------
(* C9 *)

\* C9: the handler calls the client only for image/jpeg, image/png or
\* image/webp uploads of at most 10*1024*1024 bytes; another content type is
\* answered 422 and a larger body 413, both without a call; a body of
\* exactly 10 MB is accepted.
C9_OnlyValidUploadsReachBackend ==
    /\ ( backend_called
         => /\ request.content_type \in {"image/jpeg", "image/png", "image/webp"}
            /\ request.size <= 10 * 1024 * 1024 )
    /\ ( (ai_client = "FireworksClient" /\ Answered)
         => /\ ( request.content_type \notin {"image/jpeg", "image/png", "image/webp"}
                 => response.status_code = 422 /\ ~backend_called )
            /\ ( ( request.content_type \in {"image/jpeg", "image/png", "image/webp"}
                   /\ request.size > 10 * 1024 * 1024 )
                 => response.status_code = 413 /\ ~backend_called )
            /\ ( ( request.content_type \in {"image/jpeg", "image/png", "image/webp"}
                   /\ request.size <= 10 * 1024 * 1024 )
                 => backend_called /\ response.status_code \in {200, 500} ) )

\* an upload of exactly 10 MB that was diagnosed
C9_Witness ==
    /\ request = [content_type |-> "image/webp", size |-> 10 * 1024 * 1024]
    /\ backend_called
    /\ response.status_code = 200

-----------------------------------------------------------------------------
(* C10 *)

-----------------------------------------------------------------------------
(* C11 *)

-----------------------------------------------------------------------------
(* C12 *)

\* the refinement sub-call failed: no connection, a non-success status, an
\* empty text, or a text with no parseable REFINED_CONFIDENCE
RefinementFailed ==
    /\ ollama.pc \in {"returned", "raised"}
    /\ \/ ollama.refinement \in {"request_error", "http_status_error", "empty"}
       \/ ollama.refinement = "reply" /\ ollama.text_data = <<>>

\* C12: a failure of the refinement sub-call does not fail the diagnosis:
\* the vision result is returned with its disease_confidence unchanged.
C12_RefinementFailureSwallowed ==
    RefinementFailed
    => /\ ollama.pc = "returned"
       /\ ollama.result = <<ollama.vision_data>>

-----------------------------------------------------------------------------
(* C17 *)

\* the refinement reply carries a REFINED_CONFIDENCE value float() parses
ParseableRefinement(text) ==
    /\ Len(text) >= 3
    /\ text[1] = REFINED_CONFIDENCE
    /\ text[2] = SP
    /\ text[3] \in DOMAIN Hundredths

\* C17: the refinement is sent only for an unhealthy vision result with a
\* disease other than "None"; a parseable REFINED_CONFIDENCE value v, 0.0
\* included, becomes the final disease_confidence and the other fields of
\* the vision result are unchanged.
C17_RefinementOverrides ==
    /\ ( (ollama.pc # "idle" /\ ollama.refinement # "not_sent")
         => /\ ollama.vision = "reply"
            /\ ollama.vision_data.ok
            /\ ollama.vision_data.status = "unhealthy"
            /\ ollama.vision_data.disease # <<"None">> )
    /\ ( ( /\ ollama.pc \in {"returned", "raised"}
           /\ ollama.refinement = "reply"
           /\ ParseableRefinement(ollama.text_response) )
         => /\ ollama.pc = "returned"
            /\ ollama.result =
                 << [ollama.vision_data EXCEPT
                       !.disease_confidence = Hundredths[ollama.text_response[3]]] >> )

-----------------------------------------------------------------------------
(* C13 *)

\* C13: a reply whose text is blank (empty or whitespace only) makes the
\* adapter fail with an empty-response error: the parser is not run on it
\* and no diagnosis is returned.
C13_BlankReplyIsEmptyResponse ==
    ( outcome = "reply" /\ \A i \in 1..Len(raw) : raw[i] \in {" ", "\n"} )
    => /\ parsed = <<>>
       /\ response.status_code = 500
       /\ response.body = <<>>

-----------------------------------------------------------------------------
(* C14 *)

\* the failure messages that signal overload: they contain "503",
\* "unavailable" or "overloaded"
OverloadMessages ==
    {"503 UNAVAILABLE. The model is overloaded.", "Service Unavailable",
     "The model is overloaded. Please try again later."}

-----------------------------------------------------------------------------
(* C15 *)

\* C15: when every attempt failed with a message that signals overload
\* ("503", "unavailable" or "overloaded"), the error surfaced is the
\* "currently overloaded / temporarily unavailable" one.
C15_ExhaustionSurfacesOverloaded ==
    ( /\ gemini.pc = "raised"
      /\ \A k \in 1..Len(gemini.errors) : gemini.errors[k] \in OverloadMessages )
    => gemini.error = "Gemini API is currently overloaded."

-----------------------------------------------------------------------------
(* C16 *)

\* C16 as stated: while the encoding is over 500 KB and quality is above 10,
\* a step lowers quality by 5 and leaves the dimensions unchanged; the
\* dimensions shrink only at the floor.
C16_QualityStepsKeepDimensions ==
    [][ (image.pc = "test" /\ image'.pc = "save")
        => IF image.quality > 10
           THEN /\ image'.quality = image.quality - 5
                /\ image'.width = image.width
                /\ image'.height = image.height
           ELSE /\ image'.width < image.width
                /\ image'.height < image.height ]_vars

\* C16, amended: every step of the loop is taken with the encoding over
\* 500 KB and quality above 10, and it both lowers quality by 5 and shrinks
\* each dimension to int(0.9 * dimension); at quality 10 the loop ends and
\* nothing is shrunk any more.
C16_EachStepLowersQualityAndShrinks ==
    [][ /\ ( (image.pc = "test" /\ image'.pc = "save")
             => /\ image.img_buffer.bytes > 500 * 1024
                /\ image.quality > 10
                /\ image'.quality = image.quality - 5
                /\ image'.width = (image.width * 9) \div 10
                /\ image'.height = (image.height * 9) \div 10 )
        /\ ( (image.pc = "test" /\ image.quality = 10)
             => /\ image'.pc = "returned"
                /\ image'.width = image.width
                /\ image'.height = image.height ) ]_vars

\* the first step of a 4000 x 3000 image: quality 80 at 3600 x 2700
C16_Witness ==
    /\ image.pc = "save"
    /\ image.shrinks = 1
    /\ image.quality = 80
    /\ image.width = 3600
    /\ image.height = 2700

-----------------------------------------------------------------------------
(* C18 *)

\* C18: the compression loop terminates; quality only takes the values
\* 85, 80, ..., 10, five less after each step, so there are at most 16
\* encodings and 15 shrink steps; on exit the encoding is at most 500 KB or
\* quality is 10; quality is never below 10.
C18_CompressionTerminates ==
    /\ []( /\ image.quality \in {85 - 5 * k : k \in 0..15}
           /\ image.quality = 85 - 5 * image.shrinks
           /\ image.quality >= 10
           /\ image.encodings <= 16
           /\ image.shrinks <= 15
           /\ image.encodings \in {image.shrinks, image.shrinks + 1}
           /\ ( image.pc = "returned"
                => image.img_buffer.bytes <= 500 * 1024 \/ image.quality = 10 ) )
    /\ <>( image.pc \in {"returned", "raised"} )

\* the longest run: 16 encodings and 15 shrink steps, which leave a
\* 13000 pixel side at 2673
C18_Witness ==
    /\ image.pc = "returned"
    /\ image.encodings = 16
    /\ image.shrinks = 15
    /\ image.quality = 10
    /\ image.width = 2673

====
